---- MODULE Spec2Model ----
\* Verification model of the discovery service (containers/discovery-service/app).
\* The neighbor walk (NeighborDiscovery), its topology builder and the job
\* orchestration around it are modelled as a state machine; one action per
\* segment of code between two suspension points of the asyncio event loop.
EXTENDS Integers, Sequences, FiniteSets, TLC

\* ---------------------------------------------------------------------------
\* Bounds of the model
\* ---------------------------------------------------------------------------
MaxDepthBound == 2
MaxConcurrent == 2
MaxFaults == 1

\* ---------------------------------------------------------------------------
\* Values
\* ---------------------------------------------------------------------------
\* Python None / "" for a hostname (a hostname is a sequence of text pieces)
NoHostname == <<>>
\* Python None for an optional string
NoneStr == ""
\* a neighbor claim without the "ip_address" key
NoIp == ""
\* an interface whose connected_to is None
NotConnected == <<>>
\* Device.config is None (a configuration is a sequence of words)
NoConfig == <<>>
\* a running configuration that keeps its secrets hashed, and one that keeps the
\* password of the local user and the enable password in clear text
HashedConfig == <<"username", "admin", "secret", "9", "$9$hash">>
ClearConfig == <<"username", "admin", "password", "0", "pw1", "enable", "password", "en1">>
\* credentials_used is None
NoCredentials == [username |-> "", auth_type |-> "", port |-> 0]
\* a credential dict without the "password" key
MissingKey == "<missing>"
\* the default of the probe concurrency
DefaultConcurrency == 200
EmptyFn == [x \in {} |-> x]

Ip0 == "10.0.0.0"
IpA == "10.0.0.1"
IpB == "10.0.0.2"
IpC == "10.0.0.3"
IpD == "10.0.0.4"
IpLo == "10.0.1.1"

R1 == <<"R1">>
R2 == <<"R2">>
R3 == <<"R3">>
R4 == <<"R4">>
ErrEcho == <<"^", "% Invalid input detected">>

\* str.startswith("^") and the substring test "Invalid input" in hostname
StartsWithCaret(h) == Len(h) > 0 /\ h[1] = "^"
ContainsInvalidInput(h) == \E i \in 1..Len(h) : h[i] = "% Invalid input detected"

ValidHostname(h) == h # NoHostname /\ ~StartsWithCaret(h) /\ ~ContainsInvalidInput(h)

\* ---------------------------------------------------------------------------
\* The network the job runs against: what a login at each address returns
\* ---------------------------------------------------------------------------
Intf(name, ip) == [name |-> name, ip_address |-> ip, secondary_ips |-> <<>>, connected_to |-> NotConnected]
IntfSec(name, ip, sec) == [name |-> name, ip_address |-> ip, secondary_ips |-> sec, connected_to |-> NotConnected]
Claim(h, ip, l, r) == [hostname |-> h, ip_address |-> ip, local_interface |-> l, remote_interface |-> r]
Facts(h, intfs, nbrs) == [hostname |-> h, interfaces |-> intfs, neighbors |-> nbrs, accepts |-> {"admin"},
                          config |-> HashedConfig, routes |-> <<>>]
\* a line of "show ip route connected": "<code> <network>[/<prefix>] is directly connected, ..."
Route(code, network, prefix) == [code |-> code, network |-> network, prefix |-> prefix]

\* S5: linear chain R1 - R2 - R3 - R4
NetChain ==
    (IpA :> Facts(R1, <<Intf("Gi0/0", IpA)>>, <<Claim(R2, IpB, "Gi0/0", "Gi0/1")>>)) @@
    (IpB :> Facts(R2, <<Intf("Gi0/1", IpB)>>, <<Claim(R1, IpA, "Gi0/1", "Gi0/0"), Claim(R3, IpC, "Gi0/0", "Gi0/1")>>)) @@
    (IpC :> Facts(R3, <<Intf("Gi0/1", IpC)>>, <<Claim(R2, IpB, "Gi0/1", "Gi0/0"), Claim(R4, IpD, "Gi0/0", "Gi0/1")>>)) @@
    (IpD :> Facts(R4, <<Intf("Gi0/1", IpD)>>, <<Claim(R3, IpC, "Gi0/1", "Gi0/0")>>))

\* S6: R1 owns IpA and the loopback IpLo; R2 claims R1 under the loopback
FactsR1Lo == Facts(R1, <<Intf("Gi0/0", IpA), Intf("Loopback0", IpLo)>>, <<Claim(R2, IpB, "Gi0/0", "Gi0/1")>>)
NetAlias ==
    (IpA :> FactsR1Lo) @@ (IpLo :> FactsR1Lo) @@
    (IpB :> Facts(R2, <<Intf("Gi0/1", IpB)>>, <<Claim(R1, IpLo, "Gi0/1", "Gi0/0")>>))

\* R1 alone, without neighbors, answering under both of its addresses
FactsR1Alone == Facts(R1, <<Intf("Gi0/0", IpA), Intf("Loopback0", IpLo)>>, <<>>)
NetTwoAddr ==
    (IpA :> FactsR1Alone) @@ (IpLo :> FactsR1Alone)

\* S3: R1 and R2 claim each other by primary address, ports swapped
NetPair ==
    (IpA :> Facts(R1, <<Intf("Gi0/0", IpA)>>, <<Claim(R2, IpB, "Gi0/0", "Gi0/1")>>)) @@
    (IpB :> Facts(R2, <<Intf("Gi0/1", IpB)>>, <<Claim(R1, IpA, "Gi0/1", "Gi0/0")>>))

\* two physical devices that report the same hostname and claim each other
NetSameName ==
    (IpA :> Facts(R1, <<Intf("Gi0/0", IpA)>>, <<Claim(R1, IpB, "Gi0/0", "Gi0/1")>>)) @@
    (IpB :> Facts(R1, <<Intf("Gi0/1", IpB)>>, <<Claim(R1, IpA, "Gi0/1", "Gi0/0")>>))

\* a device whose neighbor table names one of its own addresses, and whose
\* running configuration holds its passwords in clear text
NetSelf ==
    (IpA :> [Facts(R1, <<Intf("Gi0/0", IpA)>>, <<Claim(R1, IpA, "Gi0/0", "Gi0/0"), Claim(R2, IpB, "Gi0/1", "Gi0/1")>>)
                EXCEPT !.config = ClearConfig]) @@
    (IpB :> Facts(R2, <<Intf("Gi0/1", IpB)>>, <<Claim(R1, IpA, "Gi0/1", "Gi0/1")>>))

\* two claims of R1 over the same local interface (CDP and LLDP, or a shared segment),
\* an interface with a secondary address and a "dhcp" interface
NetShared ==
    (IpA :> Facts(R1, <<IntfSec("Gi0/0", IpA, <<IpLo>>), Intf("Gi0/9", "dhcp")>>,
                  <<Claim(R2, IpB, "Gi0/0", "Gi0/1"), Claim(R3, IpC, "Gi0/0", "Gi0/2"),
                    Claim(R2, IpB, "Gi0/0", "Gi0/1")>>)) @@
    (IpB :> Facts(R2, <<Intf("Gi0/1", IpB)>>, <<Claim(R1, IpA, "Gi0/1", "Gi0/0"), Claim(R3, IpC, "Gi0/1", "Gi0/2")>>)) @@
    (IpC :> Facts(R3, <<Intf("Gi0/2", IpC)>>, <<Claim(R1, IpA, "Gi0/2", "Gi0/0")>>))

\* a device that answers "show hostname" with a command-error echo, and a
\* neighbor entry without management address
NetEcho ==
    (IpA :> Facts(ErrEcho, <<Intf("Gi0/0", IpA)>>, <<Claim(R2, IpB, "Gi0/0", "Gi0/1"), Claim(R3, NoIp, "Gi0/2", "Gi0/2")>>)) @@
    (IpB :> [Facts(R2, <<Intf("Gi0/1", IpB)>>, <<Claim(R1, IpA, "Gi0/1", "Gi0/0")>>) EXCEPT !.accepts = {"backup"}])

\* A seed string is kept as its parts: the text before ":" and "/", the text
\* after ":" and the text after "/".
\* no ":" in the string
NoPort == 0
\* the text after ":" is not a number
NonNumericPort == -1
\* no "/" in the string
NoPrefix == -1
Seed(ip) == [ip |-> ip, port |-> NoPort, prefix |-> NoPrefix]
SeedWithPort(ip, p) == [ip |-> ip, port |-> p, prefix |-> NoPrefix]
SeedCidr(ip, n) == [ip |-> ip, port |-> NoPort, prefix |-> n]

\* the strings "<ip>/<prefix>" of the CIDR seeds used below
CidrText ==
    (<<Ip0, 30>> :> "10.0.0.0/30") @@ (<<IpB, 31>> :> "10.0.0.2/31") @@
    (<<IpA, 32>> :> "10.0.0.1/32") @@ (<<Ip0, 33>> :> "10.0.0.0/33")

\* the whole string of a seed without ":"
SeedText(seed) == IF seed.prefix = NoPrefix THEN seed.ip ELSE CidrText[<<seed.ip, seed.prefix>>]

\* DiscoveryConfig.parse_seed_device: int() raises on a port that is no number
ParseSeedDevice(seed) ==
    [raises |-> seed.port = NonNumericPort,
     ip |-> IF seed.port = NoPort THEN SeedText(seed) ELSE seed.ip,
     port |-> IF seed.port = NoPort THEN 22 ELSE seed.port]

\* a port a socket can be opened to
PortInRange(p) == p \in 1..65535

\* R1 alone; its connected-route table names the network 10.0.0.0 without a
\* prefix, its local route 10.0.0.1/32 with one
NetRouted ==
    (IpA :> [Facts(R1, <<Intf("Gi0/0", IpA)>>, <<>>)
                EXCEPT !.routes = <<Route("C", Ip0, NoPrefix), Route("L", IpA, 32)>>])

\* the networks and the seed lists submitted against them
Scenarios ==
    { [net |-> NetChain,    seeds |-> <<Seed(IpA)>>],
      [net |-> NetAlias,    seeds |-> <<Seed(IpA)>>],
      [net |-> NetAlias,    seeds |-> <<Seed(IpB)>>],
      [net |-> NetTwoAddr,  seeds |-> <<Seed(IpA), Seed(IpLo)>>],
      [net |-> NetPair,     seeds |-> <<Seed(IpA)>>],
      [net |-> NetPair,     seeds |-> <<Seed(IpB), Seed(IpA)>>],
      [net |-> NetPair,     seeds |-> <<Seed(IpA), Seed(IpA)>>],
      [net |-> NetSameName, seeds |-> <<Seed(IpA)>>],
      [net |-> NetSelf,     seeds |-> <<Seed(IpA)>>],
      [net |-> NetShared,   seeds |-> <<Seed(IpA)>>],
      [net |-> NetEcho,     seeds |-> <<Seed(IpA)>>],
      [net |-> NetPair,     seeds |-> <<Seed(IpA), SeedWithPort(IpA, NonNumericPort)>>] }

Cred(u, p) == [username |-> u, password |-> p, enable_secret |-> "en1", auth_type |-> "password"]

\* one accepted credential; a rejected one, the accepted one, then a dict
\* without password
CredentialLists ==
    { <<Cred("admin", "pw1")>>,
      <<Cred("guest", "pw0"), Cred("admin", "pw1"), Cred("nopass", MissingKey)>> }

\* the credential list of the jobs run through run_discovery_job
JobCredentialLists == { <<Cred("nopass", MissingKey), Cred("admin", "pw1")>> }

\* exclude_patterns: none, one that matches IpB, one that is no regular expression
ExcludePatterns ==
    { [exclude |-> {}, bad_pattern |-> FALSE],
      [exclude |-> {IpB}, bad_pattern |-> FALSE],
      [exclude |-> {}, bad_pattern |-> TRUE] }

\* ---------------------------------------------------------------------------
\* State
\* ---------------------------------------------------------------------------
VARIABLES
    mode,            \* config.mode: subnet, seed-device or full-pipeline
    phase,           \* where run_discovery_job / run_discovery stands
    job_status,      \* discovery_results[job_id]["status"]
    pre_devices,     \* seed-device mode: Devices found before the walk (scan hits, seeds)
    method,          \* the method argument of run_discovery_job
    subnets,         \* seed-device mode: the subnets harvested from the seeds
    config,          \* DiscoveryConfig of the job; request_seed_devices is the seed list of
                     \* the request, seed_devices the list of the configuration in use
    net,             \* the network: address -> what the device there returns
    queue,           \* NeighborDiscovery.queue: FIFO of (ip, port, depth)
    visited_ips,     \* NeighborDiscovery.visited_ips
    ip_to_hostname,  \* NeighborDiscovery.ip_to_hostname
    hostname_to_ips, \* NeighborDiscovery.hostname_to_ips
    devices,         \* result.devices: ip -> Device
    dev_order,       \* insertion order of result.devices (dict iteration order)
    topology,        \* result.topology
    connections,     \* result.connections
    result,          \* status and counters of the DiscoveryResult
    pc,              \* per worker task: where it is suspended
    cur,             \* per worker: the (ip, port, depth) it dequeued
    cred_idx,        \* per worker: index of the credential being tried
    enqueued,        \* history: every entry ever put on the queue
    proc_count,      \* history: ip -> number of process_device calls started
    dropped,         \* history: entries dropped by the worker, with the rule
    failures,        \* history: [ip, kind] of every process_device that did not succeed
    faults,          \* history: number of failures injected by the network
    deadline_fired,  \* history: the overall deadline cancelled the workers
    scan,            \* the probe tasks of discover_reachable_hosts and their semaphores
    api              \* main.py: the registry discovery_results, the job tasks, the last response

vars == <<mode, phase, job_status, pre_devices, method, subnets, config, net, queue, visited_ips, ip_to_hostname, hostname_to_ips, devices,
          dev_order, topology, connections, result, pc, cur, cred_idx,
          enqueued, proc_count, dropped, failures, faults, deadline_fired, scan, api>>

walkShared == <<queue, visited_ips, ip_to_hostname, hostname_to_ips, devices, dev_order>>
resultVars == <<topology, connections, result>>
histVars == <<enqueued, proc_count, dropped, failures, faults, deadline_fired>>

Workers == DOMAIN pc

Min(a, b) == IF a < b THEN a ELSE b

NewDevice(ip) ==
    [ip_address |-> ip, hostname |-> NoHostname, interfaces |-> <<>>, neighbors |-> <<>>,
     config |-> NoConfig, credentials_used |-> NoCredentials,
     discovery_status |-> "pending", discovery_error |-> NoneStr,
     all_ip_addresses |-> <<>>]

NewResult == [status |-> "pending", total_devices_found |-> 0,
              successful_connections |-> 0, failed_connections |-> 0, stats |-> EmptyFn]

InSeq(x, s) == \E i \in 1..Len(s) : s[i] = x

AppendNew(s, x) == IF InSeq(x, s) THEN s ELSE Append(s, x)

\* NeighborDiscovery._should_exclude: some pattern matches the address
ShouldExclude(ip) == ip \in config.exclude

\* no reachability scan under way: no _scan_hosts call, no probe task
NoScan == [todo |-> <<>>, limit |-> 0, batch |-> 0, calls |-> 0, sem |-> EmptyFn,
           probes |-> {}, leaked |-> {}]

\* ---------------------------------------------------------------------------
\* Init: a NeighborDiscovery object right after construction
\* ---------------------------------------------------------------------------
\* discovery_results = {} at import, no job task, no response sent
NoApi == [discovery_results |-> EmptyFn, tasks |-> {}, count |-> 0,
          response |-> [kind |-> "none", job_id |-> "", include_config |-> FALSE, devices |-> EmptyFn]]

WalkFresh ==
    /\ queue = <<>>
    /\ visited_ips = {}
    /\ ip_to_hostname = EmptyFn
    /\ hostname_to_ips = EmptyFn
    /\ devices = EmptyFn
    /\ dev_order = <<>>
    /\ topology = EmptyFn
    /\ connections = <<>>
    /\ result = NewResult
    /\ pc = EmptyFn
    /\ cur = EmptyFn
    /\ cred_idx = EmptyFn
    /\ enqueued = <<>>
    /\ proc_count = EmptyFn
    /\ dropped = {}
    /\ failures = {}
    /\ faults = 0
    /\ deadline_fired = FALSE

Init ==
    /\ mode = "full-pipeline"
    /\ phase = "walk"
    /\ job_status = "running"
    /\ pre_devices = <<>>
    /\ method = "auto"
    /\ subnets = {}
    /\ \E sc \in Scenarios, cl \in CredentialLists, md \in 0..MaxDepthBound,
          cc \in 1..MaxConcurrent, ex \in ExcludePatterns :
          /\ config = [seed_devices |-> sc.seeds, request_seed_devices |-> sc.seeds, credentials |-> cl, max_depth |-> md,
                       concurrent_connections |-> cc, exclude |-> ex.exclude,
                       bad_pattern |-> ex.bad_pattern,
                       concurrency |-> DefaultConcurrency]
          /\ net = sc.net
    /\ WalkFresh
    /\ scan = NoScan
    /\ api = NoApi

\* ---------------------------------------------------------------------------
\* NeighborDiscovery.run, first part: seeds onto the queue, workers created
\* ---------------------------------------------------------------------------
SeedEntry(seed) == [ip |-> ParseSeedDevice(seed).ip, port |-> ParseSeedDevice(seed).port, depth |-> 0]

\* the seeds put on the queue before parse_seed_device raises, or all of them
RECURSIVE SeedEntriesFrom(_)
SeedEntriesFrom(seeds) ==
    IF seeds = <<>> \/ ParseSeedDevice(Head(seeds)).raises THEN <<>>
    ELSE <<SeedEntry(Head(seeds))>> \o SeedEntriesFrom(Tail(seeds))

SeedEntries == SeedEntriesFrom(config.seed_devices)

SeedParseRaises == \E i \in 1..Len(config.seed_devices) : ParseSeedDevice(config.seed_devices[i]).raises

WorkerCount == Min(config.concurrent_connections, Len(config.seed_devices))

RunBegin ==
    /\ phase \in {"walk", "fallback_walk"}
    /\ result.status = "pending"
    /\ queue' = queue \o SeedEntries
    /\ enqueued' = enqueued \o SeedEntries
    /\ IF SeedParseRaises
       THEN \* ValueError in the seed loop: the except branch of run()
            /\ result' = [result EXCEPT !.status = "failed", !.stats = EmptyFn]
            /\ UNCHANGED <<pc, cur, cred_idx>>
       ELSE /\ result' = [result EXCEPT !.status = "running", !.stats = EmptyFn]
            /\ pc' = [w \in 1..WorkerCount |-> "head"]
            /\ cur' = [w \in 1..WorkerCount |-> [ip |-> NoIp, port |-> 0, depth |-> 0]]
            /\ cred_idx' = [w \in 1..WorkerCount |-> 0]
    /\ UNCHANGED <<api, scan, mode, phase, job_status, pre_devices, method, subnets, config, net, visited_ips, ip_to_hostname, hostname_to_ips, devices, dev_order,
                   topology, connections, proc_count, dropped, failures, faults, deadline_fired>>

\* ---------------------------------------------------------------------------
\* NeighborDiscovery._worker: the loop head up to the await of process_device.
\* queue.get() on a non-empty queue does not suspend, so the worker drops
\* entries and loops without any other task running in between.
\* ---------------------------------------------------------------------------
DropRule_NoVisited(e) ==
    IF e.depth > config.max_depth THEN "depth"
    ELSE IF e.ip \in DOMAIN ip_to_hostname THEN "identity"
    ELSE "none"

DropRule(e) ==
    IF e.ip \in visited_ips THEN "visited"
    ELSE IF e.depth > config.max_depth THEN "depth"
    ELSE IF e.ip \in DOMAIN ip_to_hostname THEN "identity"
    ELSE "none"

\* the entries the worker skips before the one it processes. The identity
\* branch appends the ip to unique_devices[hostname] only if the hostname is a
\* key of unique_devices, which is created empty and written nowhere else: the
\* branch changes no state.
RECURSIVE Drain(_, _)
Drain(q, dr) ==
    IF q = <<>> THEN [queue |-> q, entry |-> <<>>, dropped |-> dr]
    ELSE LET e == Head(q) IN
         IF DropRule(e) # "none"
         THEN Drain(Tail(q), dr \cup {[ip |-> e.ip, depth |-> e.depth, rule |-> DropRule(e)]})
         ELSE [queue |-> Tail(q), entry |-> <<e>>, dropped |-> dr]

WorkerDequeue(w) ==
    /\ pc[w] = "head"
    /\ result.status = "running"
    /\ LET r == Drain(queue, dropped) IN
        /\ queue' = r.queue
        /\ dropped' = r.dropped
        /\ IF r.entry = <<>>
           THEN /\ pc' = [pc EXCEPT ![w] = "done"]
                /\ UNCHANGED <<visited_ips, cur>>
           ELSE /\ visited_ips' = visited_ips \cup {r.entry[1].ip}
                /\ cur' = [cur EXCEPT ![w] = r.entry[1]]
                /\ pc' = [pc EXCEPT ![w] = "start"]
    /\ UNCHANGED <<api, scan, mode, phase, job_status, pre_devices, method, subnets, config, net, ip_to_hostname, hostname_to_ips, devices, dev_order, cred_idx,
                   topology, connections, result, enqueued, proc_count, failures, faults,
                   deadline_fired>>

\* ---------------------------------------------------------------------------
\* NeighborDiscovery.process_device
\* ---------------------------------------------------------------------------
PutDevice(devs, ip, d) == IF ip \in DOMAIN devs THEN [devs EXCEPT ![ip] = d] ELSE devs @@ (ip :> d)

\* the worker's handlers of TimeoutError / Exception: a failed Device is
\* created only if the ip has no Device yet
FailedIfAbsent(devs, ip, err) ==
    IF ip \in DOMAIN devs THEN devs
    ELSE devs @@ (ip :> [NewDevice(ip) EXCEPT !.discovery_status = "failed", !.discovery_error = err])

OrderWith(order, devs) ==
    LET new == {ip \in DOMAIN devs : ~InSeq(ip, order)}
    IN IF new = {} THEN order ELSE Append(order, CHOOSE ip \in new : TRUE)

\* the statements after the credential loop
FinalStatus_All(devs, ip) ==
    [a \in DOMAIN devs |->
        IF devs[a].discovery_status # "discovered"
        THEN [devs[a] EXCEPT !.discovery_status = "failed"] ELSE devs[a]]

FinalStatus(devs, ip) ==
    IF devs[ip].discovery_status # "discovered"
    THEN [devs EXCEPT ![ip].discovery_status = "failed",
                      ![ip].discovery_error =
                          IF @ = NoneStr THEN "Failed to authenticate with any credentials" ELSE @]
    ELSE devs

\* `continue` in the credential loop: next credential, or leave the loop
AfterAttempt(w, devs) ==
    IF cred_idx[w] < Len(config.credentials)
    THEN /\ devices' = devs
         /\ cred_idx' = [cred_idx EXCEPT ![w] = @ + 1]
         /\ pc' = [pc EXCEPT ![w] = "detect"]
         /\ UNCHANGED failures
    ELSE /\ devices' = FinalStatus(devs, cur[w].ip)
         /\ pc' = [pc EXCEPT ![w] = "head"]
         /\ failures' = failures \cup {[ip |-> cur[w].ip, kind |-> "credentials"]}
         /\ UNCHANGED cred_idx

ProcStart(w) ==
    /\ pc[w] = "start"
    /\ LET ip == cur[w].ip IN
        /\ proc_count' = IF ip \in DOMAIN proc_count
                         THEN [proc_count EXCEPT ![ip] = @ + 1]
                         ELSE proc_count @@ (ip :> 1)
        /\ IF config.bad_pattern
           THEN \* re.match raises on the malformed pattern; caught by the worker
                /\ devices' = FailedIfAbsent(devices, ip, "re.error")
                /\ pc' = [pc EXCEPT ![w] = "head"]
                /\ failures' = failures \cup {[ip |-> ip, kind |-> "exception"]}
                /\ UNCHANGED cred_idx
           ELSE IF ShouldExclude(ip)
           THEN /\ pc' = [pc EXCEPT ![w] = "head"]
                /\ UNCHANGED <<devices, cred_idx, failures>>
           ELSE LET devs == IF ip \in DOMAIN devices THEN devices ELSE devices @@ (ip :> NewDevice(ip)) IN
                IF Len(config.credentials) = 0
                THEN /\ devices' = FinalStatus(devs, ip)
                     /\ pc' = [pc EXCEPT ![w] = "head"]
                     /\ failures' = failures \cup {[ip |-> ip, kind |-> "credentials"]}
                     /\ UNCHANGED cred_idx
                ELSE /\ devices' = devs
                     /\ cred_idx' = [cred_idx EXCEPT ![w] = 1]
                     /\ pc' = [pc EXCEPT ![w] = "detect"]
                     /\ UNCHANGED failures
        /\ dev_order' = OrderWith(dev_order, devices')
    /\ UNCHANGED <<api, scan, mode, phase, job_status, pre_devices, method, subnets, config, net, queue, visited_ips, ip_to_hostname, hostname_to_ips, cur,
                   topology, connections, result, enqueued, dropped, faults,
                   deadline_fired>>

\* the credential being tried by worker w
CurCred(w) == config.credentials[cred_idx[w]]

\* DeviceHandler.detect_device_type as seen by process_device: a device type or None
Detect(w) ==
    /\ pc[w] = "detect"
    /\ LET ip == cur[w].ip IN
        IF CurCred(w).password = MissingKey
        THEN \* Credential(**credential) raises; the except branch of the loop
             /\ AfterAttempt(w, [devices EXCEPT ![ip].discovery_status = "failed",
                                                 ![ip].discovery_error = "ValidationError"])
             /\ UNCHANGED faults
        ELSE \/ /\ ip \in DOMAIN net
                /\ PortInRange(cur[w].port)
                /\ CurCred(w).username \in net[ip].accepts
                /\ pc' = [pc EXCEPT ![w] = "info"]
                /\ UNCHANGED <<devices, cred_idx, faults, failures>>
             \/ /\ IF ip \in DOMAIN net /\ PortInRange(cur[w].port)
                   THEN CurCred(w).username \notin net[ip].accepts ELSE TRUE
                /\ AfterAttempt(w, devices)
                /\ UNCHANGED faults
             \/ /\ faults < MaxFaults
                /\ faults' = faults + 1
                /\ AfterAttempt(w, devices)
    /\ UNCHANGED <<api, scan, mode, phase, job_status, pre_devices, method, subnets, config, net, queue, visited_ips, ip_to_hostname, hostname_to_ips, dev_order, cur,
                   topology, connections, result, enqueued, proc_count, dropped,
                   deadline_fired>>

\* --- identity bookkeeping of process_device (hostname deduplication) --------
\* st is [dev, i2h]: the Device being filled and ip_to_hostname
MapExtraIp_NoList(st, ip) ==
    IF ip \in DOMAIN st.i2h THEN st
    ELSE [dev |-> st.dev, i2h |-> st.i2h @@ (ip :> st.dev.hostname)]

MapExtraIp(st, ip) ==
    IF ip \in DOMAIN st.i2h THEN st
    ELSE [dev |-> [st.dev EXCEPT !.all_ip_addresses = AppendNew(@, ip)],
          i2h |-> st.i2h @@ (ip :> st.dev.hostname)]

RECURSIVE MapSecondaryIps(_, _)
MapSecondaryIps(st, secs) ==
    IF secs = <<>> THEN st
    ELSE MapSecondaryIps(IF Head(secs) # NoIp THEN MapExtraIp(st, Head(secs)) ELSE st, Tail(secs))

RECURSIVE MapInterfaceIps(_, _)
MapInterfaceIps(st, intfs) ==
    IF intfs = <<>> THEN st
    ELSE LET intf == Head(intfs) IN
         IF intf.ip_address # NoIp
         THEN LET st1 == IF intf.ip_address # "dhcp" THEN MapExtraIp(st, intf.ip_address) ELSE st
              IN MapInterfaceIps(MapSecondaryIps(st1, intf.secondary_ips), Tail(intfs))
         ELSE MapInterfaceIps(st, Tail(intfs))

\* d is the Device after device_info was copied into it; result is
\* [dev, i2h, h2i] after the deduplication block
TrackIdentity(d, ip, i2h, h2i) ==
    IF ValidHostname(d.hostname)
    THEN LET h == d.hostname
             h2i1 == IF h \in DOMAIN h2i THEN [h2i EXCEPT ![h] = Append(@, ip)] ELSE h2i @@ (h :> <<ip>>)
             i2h1 == IF ip \in DOMAIN i2h THEN [i2h EXCEPT ![ip] = h] ELSE i2h @@ (ip :> h)
             d1 == [d EXCEPT !.all_ip_addresses = IF @ = <<>> THEN <<ip>> ELSE AppendNew(@, ip)]
             st == MapInterfaceIps([dev |-> d1, i2h |-> i2h1], d1.interfaces)
         IN [dev |-> st.dev, i2h |-> st.i2h, h2i |-> h2i1]
    ELSE [dev |-> d, i2h |-> i2h, h2i |-> h2i]

CredentialsUsed_FirstListed(c, port) ==
    [username |-> config.credentials[1].username, auth_type |-> c.auth_type, port |-> port]

CredentialsUsed(c, port) == [username |-> c.username, auth_type |-> c.auth_type, port |-> port]

\* device_info copied into the Device, status and credentials_used set
WithInfo(d, info, c, port) ==
    [d EXCEPT !.hostname = IF info.hostname # NoHostname THEN info.hostname ELSE @,
              !.interfaces = IF info.interfaces # <<>> THEN info.interfaces ELSE @,
              !.discovery_status = "discovered",
              !.credentials_used = CredentialsUsed(c, port)]

\* DeviceHandler.get_device_info as seen by process_device: the facts, the
\* facts gathered before a command failed, or {} when the connection failed
Info(w) ==
    /\ pc[w] = "info"
    /\ LET ip == cur[w].ip
           full == [hostname |-> net[ip].hostname, interfaces |-> net[ip].interfaces]
           part == [hostname |-> net[ip].hostname, interfaces |-> <<>>]
       IN \/ \E info \in {full} \cup (IF faults < MaxFaults THEN {part} ELSE {}) :
                LET t == TrackIdentity(WithInfo(devices[ip], info, CurCred(w), cur[w].port),
                                       ip, ip_to_hostname, hostname_to_ips)
                IN /\ devices' = [devices EXCEPT ![ip] = t.dev]
                   /\ ip_to_hostname' = t.i2h
                   /\ hostname_to_ips' = t.h2i
                   /\ pc' = [pc EXCEPT ![w] = "config"]
                   /\ faults' = IF info = full THEN faults ELSE faults + 1
                   /\ UNCHANGED <<cred_idx, failures>>
          \/ /\ faults < MaxFaults
             /\ faults' = faults + 1
             /\ AfterAttempt(w, devices)
             /\ UNCHANGED <<ip_to_hostname, hostname_to_ips>>
    /\ UNCHANGED <<api, scan, mode, phase, job_status, pre_devices, method, subnets, config, net, queue, visited_ips, dev_order, cur, topology, connections, result,
                   enqueued, proc_count, dropped, deadline_fired>>

\* DeviceHandler.get_device_config: the running configuration, or None
Config(w) ==
    /\ pc[w] = "config"
    /\ \/ /\ devices' = [devices EXCEPT ![cur[w].ip].config = net[cur[w].ip].config]
          /\ UNCHANGED faults
       \/ /\ faults < MaxFaults
          /\ faults' = faults + 1
          /\ devices' = [devices EXCEPT ![cur[w].ip].config = NoConfig]
    /\ pc' = [pc EXCEPT ![w] = "neighbors"]
    /\ UNCHANGED <<api, scan, mode, phase, job_status, pre_devices, method, subnets, config, net, queue, visited_ips, ip_to_hostname, hostname_to_ips, dev_order, cur,
                   cred_idx, topology, connections, result, enqueued, proc_count, dropped,
                   failures, deadline_fired>>

QueuePut_Front(q, new) == new \o q

\* queue.put of an asyncio.Queue: the entries join the tail of the FIFO
QueuePut(q, new) == q \o new

\* "Add neighbors to queue if within depth limit"
WithinDepthLimit_Inclusive(depth) == depth <= config.max_depth

WithinDepthLimit(depth) == depth < config.max_depth

\* the neighbor fan-out: the entries put on the queue for a neighbor list
RECURSIVE FanOut(_, _)
FanOut(nbrs, depth) ==
    IF nbrs = <<>> THEN <<>>
    ELSE LET n == Head(nbrs)
             skip == \/ n.ip_address = NoIp
                     \/ n.ip_address \in visited_ips
                     \/ ShouldExclude(n.ip_address)
                     \/ n.ip_address \in DOMAIN ip_to_hostname
         IN (IF skip THEN <<>> ELSE <<[ip |-> n.ip_address, port |-> 22, depth |-> depth + 1]>>)
            \o FanOut(Tail(nbrs), depth)

\* DeviceHandler.get_device_neighbors, then the fan-out and the end of
\* process_device
Neighbors(w) ==
    /\ pc[w] = "neighbors"
    /\ LET ip == cur[w].ip IN
       \E nbrs \in {net[ip].neighbors} \cup (IF faults < MaxFaults THEN {<<>>} ELSE {}) :
          LET new == IF nbrs # <<>> /\ WithinDepthLimit(cur[w].depth)
                     THEN FanOut(nbrs, cur[w].depth) ELSE <<>>
          IN /\ devices' = FinalStatus([devices EXCEPT ![ip].neighbors = IF nbrs # <<>> THEN nbrs ELSE @], ip)
             /\ queue' = QueuePut(queue, new)
             /\ enqueued' = enqueued \o new
             /\ faults' = IF nbrs = net[ip].neighbors THEN faults ELSE faults + 1
    /\ pc' = [pc EXCEPT ![w] = "head"]
    /\ UNCHANGED <<api, scan, mode, phase, job_status, pre_devices, method, subnets, config, net, visited_ips, ip_to_hostname, hostname_to_ips, dev_order, cur, cred_idx,
                   topology, connections, result, proc_count, dropped, failures, deadline_fired>>

\* asyncio.wait_for(process_device, timeout) expires while process_device is
\* suspended in a device operation; the worker's TimeoutError handler runs
Suspended(w) ==
    \/ pc[w] \in {"info", "config", "neighbors"}
    \/ pc[w] = "detect" /\ CurCred(w).password # MissingKey

DeviceTimeout(w) ==
    /\ Suspended(w)
    /\ faults < MaxFaults
    /\ faults' = faults + 1
    /\ devices' = FailedIfAbsent(devices, cur[w].ip, "Processing timed out")
    /\ dev_order' = OrderWith(dev_order, devices')
    /\ failures' = failures \cup {[ip |-> cur[w].ip, kind |-> "timeout"]}
    /\ pc' = [pc EXCEPT ![w] = "head"]
    /\ UNCHANGED <<api, scan, mode, phase, job_status, pre_devices, method, subnets, config, net, queue, visited_ips, ip_to_hostname, hostname_to_ips, cur, cred_idx,
                   topology, connections, result, enqueued, proc_count, dropped, deadline_fired>>

\* worker w is inside wait_for(process_device(...)) for the entry cur[w]
Busy(w) == pc[w] \in {"start", "detect", "info", "config", "neighbors"}

\* the overall deadline of run(): gather is cancelled, every worker leaves its
\* loop through CancelledError, which neither handler of the worker catches
OverallTimeout ==
    /\ result.status = "running"
    /\ \E w \in Workers : pc[w] # "done"
    /\ pc' = [w \in Workers |-> "done"]
    /\ deadline_fired' = TRUE
    /\ failures' = failures \cup {[ip |-> cur[w].ip, kind |-> "deadline"] : w \in {v \in Workers : Busy(v)}}
    /\ UNCHANGED <<api, scan, mode, phase, job_status, pre_devices, method, subnets, config, net, queue, visited_ips, ip_to_hostname, hostname_to_ips, devices, dev_order,
                   cur, cred_idx, topology, connections, result, enqueued, proc_count, dropped,
                   faults>>

\* ---------------------------------------------------------------------------
\* NeighborDiscovery._build_topology
\* ---------------------------------------------------------------------------
\* first pass: canonical ip of every discovered device (the first ip seen for
\* its hostname, or itself without a valid hostname); acc is [canon, h2c].
\* In the passes below acc is the value of the argument acc0, taken once.
RECURSIVE CanonicalPass(_, _, _)
CanonicalPass(order, devs, acc0) ==
    IF order = <<>> THEN acc0.canon
    ELSE CHOOSE out \in
         { LET ip == Head(order)
               d == devs[ip]
           IN IF d.discovery_status # "discovered" THEN CanonicalPass(Tail(order), devs, acc)
              ELSE IF ValidHostname(d.hostname)
              THEN LET h2c == IF d.hostname \in DOMAIN acc.h2c THEN acc.h2c
                              ELSE acc.h2c @@ (d.hostname :> ip)
                   IN CanonicalPass(Tail(order), devs,
                                    [canon |-> acc.canon @@ (ip :> h2c[d.hostname]), h2c |-> h2c])
              ELSE CanonicalPass(Tail(order), devs,
                                 [canon |-> acc.canon @@ (ip :> ip), h2c |-> acc.h2c])
           : acc \in {acc0} } : TRUE

CanonicalIps(order, devs) == CanonicalPass(order, devs, [canon |-> EmptyFn, h2c |-> EmptyFn])

\* canonical_ips.get(ip, ip)
CanonicalOf(canon, ip) == IF ip \in DOMAIN canon THEN canon[ip] ELSE ip

Connection(s, t, sp, tp) == [source |-> s, target |-> t, source_port |-> sp, target_port |-> tp]

SameConnection(e, c) ==
    /\ e.source = c.source /\ e.target = c.target
    /\ e.source_port = c.source_port /\ e.target_port = c.target_port

ReverseConnection_SamePorts(e, c) ==
    /\ e.source = c.target /\ e.target = c.source
    /\ e.source_port = c.source_port /\ e.target_port = c.target_port

ReverseConnection(e, c) ==
    /\ e.source = c.target /\ e.target = c.source
    /\ e.source_port = c.target_port /\ e.target_port = c.source_port

\* "exists" of the connection loop
ConnectionExists(conns, c) ==
    \E i \in 1..Len(conns) : SameConnection(conns[i], c) \/ ReverseConnection(conns[i], c)

\* the first interface named like the claim's local interface gets connected_to
LinkInterface(intfs, n) ==
    LET hits == {i \in 1..Len(intfs) : intfs[i].name = n.local_interface}
    IN IF hits = {} THEN intfs
       ELSE LET i == CHOOSE j \in hits : \A k \in hits : j <= k
            IN [intfs EXCEPT ![i].connected_to = <<n.hostname, n.remote_interface>>]

\* the neighbor loop of one device; acc is [topology, connections, interfaces]
RECURSIVE AddNeighbors(_, _, _, _, _)
AddNeighbors(nbrs, cip, canon, known, acc0) ==
    IF nbrs = <<>> THEN acc0
    ELSE CHOOSE out \in
         { LET n == Head(nbrs) IN
           IF n.ip_address = NoIp THEN AddNeighbors(Tail(nbrs), cip, canon, known, acc)
           ELSE LET ncip == CanonicalOf(canon, n.ip_address)
                    topo == IF n.ip_address \in known /\ ~InSeq(ncip, acc.topology[cip])
                            THEN [acc.topology EXCEPT ![cip] = Append(@, ncip)]
                            ELSE acc.topology
                    c == Connection(cip, ncip, n.local_interface, n.remote_interface)
                    exists == ConnectionExists(acc.connections, c)
                IN AddNeighbors(Tail(nbrs), cip, canon, known,
                       [topology |-> topo,
                        connections |-> IF exists THEN acc.connections ELSE Append(acc.connections, c),
                        interfaces |-> IF exists THEN acc.interfaces ELSE LinkInterface(acc.interfaces, n)])
           : acc \in {acc0} } : TRUE

\* second pass over the devices; acc is [topology, connections, devices]
RECURSIVE TopologyPass(_, _, _)
TopologyPass(order, canon, acc0) ==
    IF order = <<>> THEN acc0
    ELSE CHOOSE out \in
         { LET ip == Head(order)
               d == acc.devices[ip]
           IN IF d.discovery_status # "discovered" THEN TopologyPass(Tail(order), canon, acc)
              ELSE LET cip == CanonicalOf(canon, ip)
                       topo0 == IF cip \in DOMAIN acc.topology THEN acc.topology
                                ELSE acc.topology @@ (cip :> <<>>)
                       r == AddNeighbors(d.neighbors, cip, canon, DOMAIN acc.devices,
                                         [topology |-> topo0, connections |-> acc.connections,
                                          interfaces |-> d.interfaces])
                   IN TopologyPass(Tail(order), canon,
                          [topology |-> r.topology, connections |-> r.connections,
                           devices |-> [acc.devices EXCEPT ![ip].interfaces = r.interfaces]])
           : acc \in {acc0} } : TRUE

BuildTopology(order, devs) ==
    TopologyPass(order, CanonicalIps(order, devs),
                 [topology |-> EmptyFn, connections |-> <<>>, devices |-> devs])

CountStatus(devs, statuses) == Cardinality({ip \in DOMAIN devs : devs[ip].discovery_status \in statuses})

\* NeighborDiscovery.run, after the workers have ended: topology and counters
AllWorkersDone_First == \E w \in Workers : pc[w] = "done"

\* asyncio.gather(*tasks) returns: every worker task has ended
AllWorkersDone == \A w \in Workers : pc[w] = "done"

RunEnd ==
    /\ phase \in {"walk", "fallback_walk"}
    /\ result.status = "running"
    /\ AllWorkersDone
    /\ \E t \in {BuildTopology(dev_order, devices)} :
        /\ topology' = t.topology
        /\ connections' = t.connections
        /\ devices' = t.devices
        /\ result' = [status |-> "completed",
                      total_devices_found |-> Cardinality(DOMAIN t.devices),
                      successful_connections |-> CountStatus(t.devices, {"discovered"}),
                      failed_connections |-> CountStatus(t.devices, {"failed", "unreachable"}),
                      stats |-> EmptyFn]
    /\ UNCHANGED <<api, scan, mode, phase, job_status, pre_devices, method, subnets, config, net, queue, visited_ips, ip_to_hostname, hostname_to_ips, dev_order,
                   pc, cur, cred_idx, enqueued, proc_count, dropped, failures, faults, deadline_fired>>

Next ==
    \/ RunBegin
    \/ \E w \in Workers : WorkerDequeue(w)
    \/ \E w \in Workers : ProcStart(w)
    \/ \E w \in Workers : Detect(w)
    \/ \E w \in Workers : Info(w)
    \/ \E w \in Workers : Config(w)
    \/ \E w \in Workers : Neighbors(w)
    \/ \E w \in Workers : DeviceTimeout(w)
    \/ OverallTimeout
    \/ RunEnd

Spec == Init /\ [][Next]_vars

TypeOK ==
    /\ result.status \in {"pending", "running", "completed", "failed"}
    /\ \A ip \in DOMAIN devices : devices[ip].ip_address = ip
    /\ DOMAIN devices = {dev_order[i] : i \in 1..Len(dev_order)}

\* ---------------------------------------------------------------------------
\* The job around the walk: discover / run_discovery_job (main.py) and
\* NetworkDiscovery (discovery.py). The orchestrator is one coroutine, so its
\* steps follow each other; the walk's workers interleave inside its walk step.
\* ---------------------------------------------------------------------------
Modes == {"subnet", "seed-device", "full-pipeline"}

Methods == {"auto", "neighbor_discovery"}

\* the probe concurrency of the request: the default, or a negative number
Concurrencies == {DefaultConcurrency, -1}

\* the jobs submitted against R1 - R2: reachable and unreachable seeds, a
\* subnet together with a host it contains, an excluded seed, a seed whose
\* port is not a number, a prefix of 33 next to a /31, a port above 65535, a
\* seed whose route table has a line without prefix, a seed submitted with
\* port 2222
JobScenarios ==
    { [net |-> NetPair, seeds |-> <<Seed(IpA)>>, exclude |-> {}],
      [net |-> NetPair, seeds |-> <<Seed(IpA), Seed(IpC)>>, exclude |-> {}],
      [net |-> NetPair, seeds |-> <<Seed(IpC)>>, exclude |-> {}],
      [net |-> NetPair, seeds |-> <<SeedCidr(IpB, 31), Seed(IpC)>>, exclude |-> {}],
      [net |-> NetPair, seeds |-> <<Seed(IpB)>>, exclude |-> {IpB}],
      [net |-> NetPair, seeds |-> <<Seed(IpA), SeedWithPort(IpA, NonNumericPort)>>, exclude |-> {}],
      [net |-> NetPair, seeds |-> <<SeedCidr(Ip0, 33), SeedCidr(IpB, 31)>>, exclude |-> {}],
      [net |-> NetPair, seeds |-> <<SeedWithPort(IpA, 70000)>>, exclude |-> {}],
      [net |-> NetRouted, seeds |-> <<Seed(IpA)>>, exclude |-> {}],
      [net |-> NetRouted, seeds |-> <<SeedWithPort(IpA, 2222)>>, exclude |-> {}] }

\* the registry entry written by discover, before run_discovery_job starts
JobInit ==
    /\ mode \in Modes
    /\ method \in Methods
    /\ phase = "submitted"
    /\ job_status = "pending"
    /\ pre_devices = <<>>
    /\ subnets = {}
    /\ \E sc \in JobScenarios, cl \in JobCredentialLists, md \in {MaxDepthBound},
          cc \in {MaxConcurrent}, pcy \in Concurrencies :
          /\ config = [seed_devices |-> sc.seeds, request_seed_devices |-> sc.seeds, credentials |-> cl, max_depth |-> md,
                       concurrent_connections |-> cc, exclude |-> sc.exclude, bad_pattern |-> FALSE,
                       concurrency |-> pcy]
          /\ net = sc.net
    /\ WalkFresh
    /\ scan = NoScan
    /\ api = NoApi

walkVars == <<queue, visited_ips, ip_to_hostname, hostname_to_ips, pc, cur, cred_idx,
              enqueued, proc_count, dropped, failures, deadline_fired, scan, api>>

\* NetworkDiscovery._get_method_for_mode
GetMethodForMode(m) ==
    IF m = "subnet" THEN "ip_reachability"
    ELSE IF m = "seed-device" THEN "seed_device_introspection"
    ELSE "neighbor_discovery"

\* NetworkDiscovery.__init__: the name of the method object it builds
MethodName == IF method = "auto" THEN GetMethodForMode(mode) ELSE method

\* IPReachabilityDiscovery.__init__ builds asyncio.Semaphore(concurrency),
\* which raises ValueError for a negative value
ReachabilityInitRaises == config.concurrency < 0

\* the except branch of run_discovery_job: the status written to the registry
OnJobError_Ignored(status) == status

OnJobError(status) == "failed"

\* run_discovery_job up to the first await of run_discovery
JobStart ==
    /\ phase = "submitted"
    /\ IF MethodName = "ip_reachability" /\ ReachabilityInitRaises
       THEN \* NetworkDiscovery(config, method) raises
            /\ job_status' = OnJobError("running")
            /\ phase' = "finished"
       ELSE /\ job_status' = "running"
            /\ phase' = IF mode = "subnet" THEN "subnet"
                        ELSE IF mode = "seed-device" THEN "introspect"
                        ELSE "walk"
    /\ UNCHANGED <<mode, pre_devices, method, subnets, config, net, devices, dev_order,
                   topology, connections, result, faults>>
    /\ UNCHANGED walkVars

\* a subnet string "<text>/<prefix>"; port is the ":<port>" a seed carried
\* into the text in front of the "/"
Subnet32(ip) == [network |-> ip, prefix |-> 32, port |-> NoPort]

\* IPReachabilityDiscovery.__init__: a seed with "/" is taken as it is, any
\* other seed string gets "/32" appended
SeedSubnet(seed) ==
    [network |-> seed.ip, prefix |-> IF seed.prefix = NoPrefix THEN 32 ELSE seed.prefix,
     port |-> seed.port]

\* unique_subnets = list(set(subnets))
SeedSubnets == {SeedSubnet(config.seed_devices[i]) : i \in 1..Len(config.seed_devices)}

\* ipaddress.ip_network(subnet, strict=False) raises ValueError
ParsesAsNetwork(sn) == sn.port = NoPort /\ sn.prefix \in 0..32

RECURSIVE Pow2(_)
Pow2(n) == IF n = 0 THEN 1 ELSE 2 * Pow2(n - 1)

\* network.num_addresses
NumAddresses(sn) == Pow2(32 - sn.prefix)

\* the addresses 10.0.0.0 .. 10.0.0.255 in order
AddressBlock == [i \in 1..256 |-> "10.0.0." \o ToString(i - 1)]

Offset(ip) == (CHOOSE i \in 1..Len(AddressBlock) : AddressBlock[i] = ip) - 1

\* network.hosts(): the one address of a /32, both addresses of a /31, else
\* every address but the network and the broadcast address (host bits of the
\* given address are masked off)
Hosts(sn) ==
    IF sn.prefix = 32 THEN <<sn.network>>
    ELSE LET size == NumAddresses(sn)
             lo == (Offset(sn.network) \div size) * size
         IN IF sn.prefix = 31 THEN SubSeq(AddressBlock, lo + 1, lo + size)
            ELSE SubSeq(AddressBlock, lo + 2, lo + size - 1)

\* the addresses scanned for a collection of subnets
Targets(nets) == UNION {{Hosts(sn)[i] : i \in 1..Len(Hosts(sn))} : sn \in {n \in nets : ParsesAsNetwork(n)}}

\* every order in which the scan may report a set of hosts (the subnets are
\* deduplicated through a set, whose iteration order is not fixed)
Orderings(S) ==
    {s \in [1..Cardinality(S) -> S] : \A i, j \in 1..Cardinality(S) : s[i] = s[j] => i = j}

\* a host answers the ICMP echo and has its SSH port open
Answers(ip) == ip \in DOMAIN net

\* what goes wrong while one host is probed: nothing, the SSH port refuses or
\* times out, or the SSH probe ends in an error it does not catch
NoProbeFault == [kind |-> "none", ip |-> NoIp]

ProbeFaults(nets) ==
    {NoProbeFault} \cup
    (IF faults < MaxFaults
     THEN {[kind |-> k, ip |-> h] : k \in {"refused", "error"}, h \in {t \in Targets(nets) : Answers(t)}}
     ELSE {})

\* _check_tcp_port for the probe ports [22, 443], collected by _scan_host_ports
OpenPorts(ip, fault) ==
    IF Answers(ip) /\ ~(fault.kind = "refused" /\ fault.ip = ip) THEN <<22>> ELSE <<>>

\* _scan_host_ports: the record of one host
HostRecord(ip, fault) ==
    [ip |-> ip, icmp_reachable |-> Answers(ip), open_ports |-> OpenPorts(ip, fault)]

\* _scan_hosts: gather() re-raises the error of any port probe
ScanHosts(targets, fault) ==
    [raises |-> fault.kind = "error" /\ InSeq(fault.ip, targets),
     records |-> [i \in 1..Len(targets) |-> HostRecord(targets[i], fault)]]

\* the subnet loop of discover_reachable_hosts; acc is [results, total_hosts],
\* the value of the argument acc0, and subnet_results the value of the one
\* _scan_hosts call of the iteration
RECURSIVE ScanSubnets(_, _, _)
ScanSubnets(order, fault, acc0) ==
    IF order = <<>> THEN acc0
    ELSE IF ~ParsesAsNetwork(Head(order)) THEN ScanSubnets(Tail(order), fault, acc0)
    ELSE CHOOSE out \in
         { ScanSubnets(Tail(order), fault,
               [results |-> IF subnet_results.raises THEN acc.results
                            ELSE acc.results \o subnet_results.records,
                total_hosts |-> acc.total_hosts + NumAddresses(Head(order)) - 2])
           : acc \in {acc0}, subnet_results \in {ScanHosts(Hosts(Head(order)), fault)} } : TRUE

\* the summary loop: one count of the records that answered the echo and one
\* count per probe port
IcmpCount(results) == Cardinality({i \in 1..Len(results) : results[i].icmp_reachable})

PortCount(results, port) == Cardinality({i \in 1..Len(results) : InSeq(port, results[i].open_ports)})

\* the summary of discover_reachable_hosts
Summary(results, total_hosts) ==
    [total_scanned |-> total_hosts,
     icmp_reachable |-> IcmpCount(results),
     port_22_open |-> PortCount(results, 22),
     port_443_open |-> PortCount(results, 443)]

\* IPReachabilityDiscovery.discover_reachable_hosts
DiscoverReachableHosts(order, fault) ==
    CHOOSE out \in
        { [results |-> r.results, summary |-> Summary(r.results, r.total_hosts)]
          : r \in {ScanSubnets(order, fault, [results |-> <<>>, total_hosts |-> 0])} } : TRUE

\* the addresses of the records that answered, in the order in which
\* IPReachabilityDiscovery.run stores their Devices
ReachableIps(results) ==
    LET answered(i) == results[i].icmp_reachable \/ results[i].open_ports # <<>>
        \* the first record of every address that answered
        first == {i \in 1..Len(results) :
                     /\ answered(i)
                     /\ \A j \in 1..(i - 1) : ~(answered(j) /\ results[j].ip = results[i].ip)}
    IN [k \in 1..Cardinality(first) |->
           results[CHOOSE i \in first : Cardinality({j \in first : j < i}) = k - 1].ip]

ReachableDevice(ip) == [NewDevice(ip) EXCEPT !.discovery_status = "reachable"]

\* IPReachabilityDiscovery.run: Devices for the hosts that answered
ScanDevices(order) == [i \in 1..Len(order) |-> ReachableDevice(order[i])]

SeqIps(ds) == [i \in 1..Len(ds) |-> ds[i].ip_address]

SeqToMap(ds) == [ip \in {ds[i].ip_address : i \in 1..Len(ds)} |->
                    ds[CHOOSE i \in 1..Len(ds) : ds[i].ip_address = ip]]

ScanResult(ds, stats) ==
    [status |-> "completed", total_devices_found |-> Len(ds),
     successful_connections |-> Cardinality({i \in 1..Len(ds) : ds[i].discovery_status = "reachable"}),
     failed_connections |-> Cardinality({i \in 1..Len(ds) : ds[i].discovery_status = "unreachable"}),
     stats |-> stats]

\* the result built by the except branch of run_discovery
FailedResult == [NewResult EXCEPT !.status = "failed", !.stats = [error |-> "ValueError"]]

\* NetworkDiscovery._run_subnet_discovery
SubnetDiscovery ==
    /\ phase = "subnet"
    /\ IF ReachabilityInitRaises
       THEN /\ result' = FailedResult
            /\ UNCHANGED <<devices, dev_order, faults>>
       ELSE \E order \in Orderings(SeedSubnets), fault \in ProbeFaults(SeedSubnets) :
               \E stats \in {DiscoverReachableHosts(order, fault)} :
                   /\ devices' = SeqToMap(ScanDevices(ReachableIps(stats.results)))
                   /\ dev_order' = ReachableIps(stats.results)
                   /\ result' = ScanResult(ScanDevices(ReachableIps(stats.results)), stats)
                   /\ faults' = IF fault = NoProbeFault THEN faults ELSE faults + 1
    /\ phase' = "export"
    /\ UNCHANGED <<mode, job_status, pre_devices, method, subnets, config, net,
                   topology, connections>>
    /\ UNCHANGED walkVars

\* --- seed-device mode -------------------------------------------------------
\* a credential dict that builds a Credential and that the device at ip accepts
LogsIn(ip, c) == c.password # MissingKey /\ ip \in DOMAIN net /\ c.username \in net[ip].accepts

AcceptedCredentials(ip) == {i \in 1..Len(config.credentials) : LogsIn(ip, config.credentials[i])}

\* the rows of "show ip interface brief" as DeviceInterface objects
BriefInterfaces(intfs) == [i \in 1..Len(intfs) |-> Intf(intfs[i].name, intfs[i].ip_address)]

\* all_ips of introspect_seed_devices: the primary ip, then the interface ips
RECURSIVE CollectIps(_, _)
CollectIps(acc, intfs) ==
    IF intfs = <<>> THEN acc
    ELSE CollectIps(IF Head(intfs).ip_address \notin {NoIp, "dhcp"}
                    THEN AppendNew(acc, Head(intfs).ip_address) ELSE acc, Tail(intfs))

\* parse_interface_output: the /32 of every interface address
InterfaceSubnets(intfs) ==
    {Subnet32(ip) : ip \in {intfs[i].ip_address : i \in 1..Len(intfs)} \ {NoIp, "dhcp"}}

\* parse_route_output: the three patterns applied to every line, then the
\* fallback that takes every address of the output as a /32 when no pattern
\* matched
RouteMatches(r) == r.prefix # NoPrefix \/ r.code \in {"C", "L"}

RouteSubnets(r) ==
    IF r.prefix # NoPrefix
    THEN {[network |-> r.network, prefix |-> r.prefix, port |-> NoPort], Subnet32(r.network)}
    ELSE {[network |-> r.network, prefix |-> 24, port |-> NoPort], Subnet32(r.network)}

ParseRouteOutput(routes) ==
    LET matched == UNION {RouteSubnets(routes[i]) : i \in {j \in 1..Len(routes) : RouteMatches(routes[j])}}
    IN IF matched # {} THEN matched
       ELSE {Subnet32(routes[i].network) : i \in 1..Len(routes)}

\* the Device created right after the connection to a seed
ConnectedSeed(seed, c) ==
    [NewDevice(seed.ip) EXCEPT !.discovery_status = "discovered",
                               !.credentials_used = CredentialsUsed(c, seed.port)]

\* the Device after all show commands were parsed
IntrospectedSeed(seed, c) ==
    [ConnectedSeed(seed, c) EXCEPT !.config = net[seed.ip].config,
                                   !.hostname = net[seed.ip].hostname,
                                   !.interfaces = BriefInterfaces(net[seed.ip].interfaces),
                                   !.all_ip_addresses = CollectIps(<<seed.ip>>, net[seed.ip].interfaces),
                                   !.neighbors = net[seed.ip].neighbors]

\* the credential loop for one seed: without a command failure the first
\* accepted credential ends the loop; when the commands fail, the loop goes on
\* and the bare Device of the last accepted credential stays in the map
IntrospectSeed(seed, cmds_fail) ==
    LET ok == IF PortInRange(seed.port) THEN AcceptedCredentials(seed.ip) ELSE {} IN
    IF ok = {} THEN [devices |-> <<>>, subnets |-> {}]
    ELSE IF cmds_fail
    THEN [devices |-> <<ConnectedSeed(seed, config.credentials[CHOOSE i \in ok : \A j \in ok : j <= i])>>,
          subnets |-> {}]
    ELSE [devices |-> <<IntrospectedSeed(seed, config.credentials[CHOOSE i \in ok : \A j \in ok : i <= j])>>,
          subnets |-> InterfaceSubnets(net[seed.ip].interfaces) \cup ParseRouteOutput(net[seed.ip].routes)]

\* dict assignment on an ordered map kept as a sequence of Devices
PutSeq(ds, d) ==
    IF \E i \in 1..Len(ds) : ds[i].ip_address = d.ip_address
    THEN [i \in 1..Len(ds) |-> IF ds[i].ip_address = d.ip_address THEN d ELSE ds[i]]
    ELSE Append(ds, d)

\* introspect_seed_devices: acc is [devices, subnets]; failing is the set of
\* seed positions whose show commands fail
RECURSIVE IntrospectFrom(_, _, _)
IntrospectFrom(i, failing, acc) ==
    IF i > Len(config.seed_devices) THEN acc
    ELSE IF ParseSeedDevice(config.seed_devices[i]).raises
    THEN \* the seed is logged and skipped
         IntrospectFrom(i + 1, failing, acc)
    ELSE LET r == IntrospectSeed(ParseSeedDevice(config.seed_devices[i]), i \in failing)
         IN IntrospectFrom(i + 1, failing,
                [devices |-> IF r.devices = <<>> THEN acc.devices ELSE PutSeq(acc.devices, r.devices[1]),
                 subnets |-> acc.subnets \cup r.subnets])

IntrospectSeedDevices(failing) == IntrospectFrom(1, failing, [devices |-> <<>>, subnets |-> {}])

\* the result initialised with the seed devices
SeedResult(status, ds) ==
    [NewResult EXCEPT !.status = status, !.total_devices_found = Len(ds),
                      !.successful_connections = Len(ds)]

\* NetworkDiscovery._run_seed_device_discovery up to the reachability scan
IntrospectSeeds ==
    /\ phase = "introspect"
    /\ \E failing \in {{}} \cup (IF faults < MaxFaults
                                 THEN {{i} : i \in 1..Len(config.seed_devices)} ELSE {}) :
        LET sr == IntrospectSeedDevices(failing) IN
        /\ faults' = faults + Cardinality(failing)
        /\ IF sr.subnets = {} /\ sr.devices = <<>>
           THEN \* fall back to self.method.run()
                /\ phase' = IF MethodName = "neighbor_discovery" THEN "fallback_walk" ELSE "export"
                /\ UNCHANGED <<pre_devices, subnets, devices, dev_order, result>>
           ELSE IF sr.subnets = {}
           THEN \* seed devices but no subnets: the seed devices are the result
                /\ devices' = SeqToMap(sr.devices)
                /\ dev_order' = SeqIps(sr.devices)
                /\ result' = SeedResult("completed", sr.devices)
                /\ phase' = "export"
                /\ UNCHANGED <<pre_devices, subnets>>
           ELSE IF ReachabilityInitRaises
           THEN \* IPReachabilityDiscovery(reachability_config) raises
                /\ devices' = SeqToMap(sr.devices)
                /\ dev_order' = SeqIps(sr.devices)
                /\ result' = [SeedResult("failed", sr.devices) EXCEPT !.stats = [error |-> "ValueError"]]
                /\ subnets' = sr.subnets
                /\ phase' = "export"
                /\ UNCHANGED pre_devices
           ELSE /\ pre_devices' = sr.devices
                /\ subnets' = sr.subnets
                /\ phase' = "seed_reach"
                /\ UNCHANGED <<devices, dev_order, result>>
    /\ UNCHANGED <<mode, job_status, method, config, net, topology, connections>>
    /\ UNCHANGED walkVars

\* seed devices merged into the scan result: those the scan did not find
RECURSIVE MergeMissing(_, _)
MergeMissing(ds, extra) ==
    IF extra = <<>> THEN ds
    ELSE MergeMissing(IF \E i \in 1..Len(ds) : ds[i].ip_address = Head(extra).ip_address
                      THEN ds ELSE Append(ds, Head(extra)), Tail(extra))

\* "ip:port" when the Device carries credentials_used with a port, else "ip"
PreservedSeed(d) ==
    IF d.credentials_used # NoCredentials THEN SeedWithPort(d.ip_address, d.credentials_used.port)
    ELSE Seed(d.ip_address)

PreservedSeedDevices(ds) == [i \in 1..Len(ds) |-> PreservedSeed(ds[i])]

\* the reachability scan of the harvested subnets, the merge with the seed
\* devices and the configuration of the walk that follows
SeedReachability ==
    /\ phase = "seed_reach"
    /\ \E order \in Orderings(subnets), fault \in ProbeFaults(subnets) :
        \E stats \in {DiscoverReachableHosts(order, fault)} :
        \E merged \in {MergeMissing(ScanDevices(ReachableIps(stats.results)), pre_devices)} :
        LET preserved == PreservedSeedDevices(merged)
        IN /\ pre_devices' = merged
           /\ config' = [config EXCEPT !.seed_devices =
                            IF preserved = <<>> THEN config.seed_devices ELSE preserved]
           \* the reachability result, until the walk returns its own result
           /\ result' = [result EXCEPT !.stats = stats]
           /\ faults' = IF fault = NoProbeFault THEN faults ELSE faults + 1
    /\ phase' = "walk"
    /\ UNCHANGED <<mode, job_status, method, subnets, net, devices, dev_order,
                   topology, connections>>
    /\ UNCHANGED walkVars

\* the Devices found before the walk that the walk's result does not hold
RECURSIVE MergeInto(_, _, _)
MergeInto(devs, order, extra) ==
    IF extra = <<>> THEN [devices |-> devs, order |-> order]
    ELSE LET d == Head(extra) IN
         IF d.ip_address \in DOMAIN devs THEN MergeInto(devs, order, Tail(extra))
         ELSE MergeInto(devs @@ (d.ip_address :> d), Append(order, d.ip_address), Tail(extra))

\* the walk has returned to the orchestrator
WalkReturn ==
    /\ phase \in {"walk", "fallback_walk"}
    /\ result.status \in {"completed", "failed"}
    /\ IF phase = "fallback_walk"
       THEN \* the return in the finally clause replaces the walk's result by
            \* the result object created at the start
            /\ devices' = EmptyFn
            /\ dev_order' = <<>>
            /\ topology' = EmptyFn
            /\ connections' = <<>>
            /\ result' = NewResult
       ELSE IF mode = "seed-device"
       THEN LET m == MergeInto(devices, dev_order, pre_devices) IN
            /\ devices' = m.devices
            /\ dev_order' = m.order
            /\ UNCHANGED <<topology, connections, result>>
       ELSE UNCHANGED <<devices, dev_order, topology, connections, result>>
    /\ phase' = "export"
    /\ UNCHANGED <<mode, job_status, pre_devices, method, subnets, config, net, faults>>
    /\ UNCHANGED walkVars

\* run_discovery_job after run_discovery: the export files, then the registry
JobEnd ==
    /\ phase = "export"
    /\ job_status' = "completed"
    /\ phase' = "finished"
    /\ UNCHANGED <<mode, pre_devices, method, subnets, config, net, devices, dev_order,
                   topology, connections, result, faults>>
    /\ UNCHANGED walkVars

JobNext ==
    \/ JobStart
    \/ SubnetDiscovery
    \/ IntrospectSeeds
    \/ SeedReachability
    \/ WalkReturn
    \/ JobEnd
    \/ Next

\* a step of the orchestrator coroutine
OrchestratorStep ==
    \/ JobStart \/ SubnetDiscovery \/ IntrospectSeeds \/ SeedReachability
    \/ RunBegin \/ RunEnd \/ WalkReturn \/ JobEnd

\* a step of a worker task: the code between two suspension points, or the
\* return (with a result or an error) of the device operation it awaits
WorkerStep ==
    \E w \in Workers : \/ WorkerDequeue(w) \/ ProcStart(w)
                       \/ Detect(w) \/ Info(w) \/ Config(w) \/ Neighbors(w)

\* the event loop always runs a task that is ready, and every awaited network
\* operation returns, fails or is cut by its timeout
JobSpec == JobInit /\ [][JobNext]_vars

FairSpec == JobInit /\ [][JobNext]_vars /\ WF_vars(OrchestratorStep) /\ WF_vars(WorkerStep)

\* ---------------------------------------------------------------------------
\* The probe tasks of a reachability scan (IPReachabilityDiscovery): one step
\* per segment of a probe task between two suspension points
\* ---------------------------------------------------------------------------
\* the user name the SSH probe logs in with
ProbeUser == "invalid_user_just_checking_port"

\* the default probe ports
ProbePorts == <<22, 443>>

\* R1 has no authentication configured and lets any user in; R2 asks for the
\* password of admin; nothing listens on port 443
NetOpenAuth ==
    (IpA :> [Facts(R1, <<Intf("Gi0/0", IpA)>>, <<>>) EXCEPT !.accepts = {"admin", ProbeUser}]) @@
    (IpB :> Facts(R2, <<Intf("Gi0/1", IpB)>>, <<>>))

\* the seed lists of the scans: a /31 and a host, one /30
ScanSeedLists == { <<SeedCidr(IpB, 31), Seed(IpA)>>, <<SeedCidr(Ip0, 30)>> }

\* discover_reachable_hosts is entered: the subnets that parse, in the order
\* of the deduplicating set, with the configured probe concurrency
ScanInit ==
    /\ mode = "subnet"
    /\ phase = "subnet"
    /\ job_status = "running"
    /\ pre_devices = <<>>
    /\ method = "auto"
    /\ subnets = {}
    /\ net = NetOpenAuth
    /\ \E seeds \in ScanSeedLists, pcy \in 1..MaxConcurrent :
          config = [seed_devices |-> seeds, request_seed_devices |-> seeds, credentials |-> <<Cred("admin", "pw1")>>, max_depth |-> 0,
                    concurrent_connections |-> 1, exclude |-> {}, bad_pattern |-> FALSE,
                    concurrency |-> pcy]
    /\ WalkFresh
    /\ api = NoApi
    /\ \E order \in Orderings({sn \in SeedSubnets : ParsesAsNetwork(sn)}) :
          scan = [NoScan EXCEPT !.todo = [i \in 1..Len(order) |-> Hosts(order[i])],
                                !.limit = config.concurrency]

scanRest == <<api, mode, phase, job_status, pre_devices, method, subnets, config, net, queue, visited_ips,
              ip_to_hostname, hostname_to_ips, devices, dev_order, topology, connections, result,
              pc, cur, cred_idx, enqueued, proc_count, dropped, failures, deadline_fired>>

\* the probe tasks _scan_hosts creates for its targets: one per host and port
ProbeTasks(b, targets) ==
    {[batch |-> b, ip |-> targets[i], port |-> ProbePorts[k], st |-> "waiting"] :
        i \in 1..Len(targets), k \in 1..Len(ProbePorts)}

\* the probes that hold a permit: between the entry and the exit of the
\* "async with semaphore" block
InFlight == {p \in scan.probes : p.st = "running"}

\* _scan_hosts is called for the next subnet: it creates its semaphore and,
\* after the echo scan, one task per host and port
ScanHostsBegin ==
    /\ scan.batch = 0
    /\ scan.todo # <<>>
    /\ LET b == scan.calls + 1
           targets == Head(scan.todo)
       IN scan' = [scan EXCEPT !.todo = Tail(@),
                               !.calls = b,
                               !.batch = IF targets = <<>> THEN 0 ELSE b,
                               !.sem = @ @@ (b :> scan.limit),
                               !.probes = @ \cup ProbeTasks(b, targets)]
    /\ UNCHANGED faults
    /\ UNCHANGED scanRest

\* _check_tcp_port: the task enters "async with semaphore"
ProbeAcquire(p) ==
    /\ p.st = "waiting"
    /\ scan.sem[p.batch] > 0
    /\ scan' = [scan EXCEPT !.sem[p.batch] = @ - 1,
                            !.probes = (@ \ {p}) \cup {[p EXCEPT !.st = "running"]}]
    /\ UNCHANGED faults
    /\ UNCHANGED scanRest

\* how the connection attempt of a probe ends: asyncssh.connect returns a
\* connection, raises DisconnectError, raises one of the errors the probe
\* catches, or raises any other error; the plain TCP probe is refused
ProbeOutcomes(p) ==
    IF p.port = 22
    THEN (IF p.ip \in DOMAIN net
          THEN IF ProbeUser \in net[p.ip].accepts THEN {"connected"} ELSE {"disconnect"}
          ELSE {"refused"})
         \cup (IF faults < MaxFaults THEN {"error"} ELSE {})
    ELSE {"refused"}

\* _check_tcp_port returns or raises and leaves the semaphore block. A
\* connection that asyncssh.connect returned is not closed. An error that
\* leaves the probe ends the gather of its _scan_hosts call, whose other
\* tasks go on.
ProbeReturn(p) ==
    /\ p.st = "running"
    /\ \E o \in ProbeOutcomes(p) :
        /\ scan' = [scan EXCEPT !.sem[p.batch] = @ + 1,
                                !.probes = @ \ {p},
                                !.leaked = IF o = "connected"
                                           THEN @ \cup {[ip |-> p.ip, port |-> p.port]} ELSE @,
                                !.batch = IF o = "error" /\ p.batch = scan.batch THEN 0 ELSE @]
        /\ faults' = IF o = "error" THEN faults + 1 ELSE faults
    /\ UNCHANGED scanRest

\* the gather of the current _scan_hosts call has every result
ScanHostsEnd ==
    /\ scan.batch # 0
    /\ \A p \in scan.probes : p.batch # scan.batch
    /\ scan' = [scan EXCEPT !.batch = 0]
    /\ UNCHANGED faults
    /\ UNCHANGED scanRest

ScanNext ==
    \/ ScanHostsBegin
    \/ \E p \in scan.probes : ProbeAcquire(p)
    \/ \E p \in scan.probes : ProbeReturn(p)
    \/ ScanHostsEnd

ScanSpec == ScanInit /\ [][ScanNext]_vars

\* ---------------------------------------------------------------------------
\* The REST service (main.py): the submissions, the job tasks that write the
\* registry discovery_results, and the reads of a job's devices
\* ---------------------------------------------------------------------------
MaxSubmissions == 3

\* the job_id an operator sends with a request
RequestJobIds == {"nightly"}

\* "discovery_<timestamp>_<len(discovery_results) + 1>"; the requests of the
\* model arrive within one second, the resolution of the timestamp
GeneratedJobId(n) == "discovery_" \o ToString(n)

\* the devices of result.dict(exclude_none=True): a discovered device with its
\* configuration, a failed one without the key
ResultDevices ==
    (IpA :> [discovery_status |-> "discovered", config |-> HashedConfig]) @@
    (IpB :> [discovery_status |-> "failed", config |-> NoConfig])

\* a registry record without the key "result"
NoResult == [by |-> 0, devices |-> EmptyFn]

\* the result of the run started for submission n
JobResult(n) == [by |-> n, devices |-> ResultDevices]

\* d[k] = v on a dict
DictSet(d, k, v) == IF k \in DOMAIN d THEN [d EXCEPT ![k] = v] ELSE d @@ (k :> v)

\* the status filters and the include_config flags of the device reads
StatusFilters == {"", "discovered"}

ApiInit ==
    /\ mode = "full-pipeline"
    /\ phase = "submitted"
    /\ job_status = "pending"
    /\ pre_devices = <<>>
    /\ method = "auto"
    /\ subnets = {}
    /\ net = NetPair
    /\ config = [seed_devices |-> <<Seed(IpA)>>, request_seed_devices |-> <<Seed(IpA)>>,
                 credentials |-> <<Cred("admin", "pw1")>>, max_depth |-> 0,
                 concurrent_connections |-> 1, exclude |-> {}, bad_pattern |-> FALSE,
                 concurrency |-> DefaultConcurrency]
    /\ WalkFresh
    /\ scan = NoScan
    /\ api = NoApi

apiRest == <<scan, faults, mode, phase, job_status, pre_devices, method, subnets, config, net, queue,
             visited_ips, ip_to_hostname, hostname_to_ips, devices, dev_order, topology, connections,
             result, pc, cur, cred_idx, enqueued, proc_count, dropped, failures, deadline_fired>>

\* POST /discover: the record of job_id is assigned, whether or not the
\* registry holds one, and run_discovery_job is started for the submission
Discover ==
    /\ api.count < MaxSubmissions
    /\ \E id \in RequestJobIds \cup {GeneratedJobId(Cardinality(DOMAIN api.discovery_results) + 1)} :
          LET n == api.count + 1 IN
          api' = [api EXCEPT
                     !.count = n,
                     !.discovery_results = DictSet(@, id, [status |-> "pending", by |-> n, result |-> NoResult]),
                     !.tasks = @ \cup {[sub |-> n, job_id |-> id, pc |-> "queued"]}]
    /\ UNCHANGED apiRest

\* run_discovery_job, first statement: the record found under job_id is set
\* to running
JobRun(t) ==
    /\ t.pc = "queued"
    /\ api' = [api EXCEPT !.discovery_results[t.job_id].status = "running",
                          !.tasks = (@ \ {t}) \cup {[t EXCEPT !.pc = "running"]}]
    /\ UNCHANGED apiRest

\* run_discovery_job after run_discovery returned: update() of the record
\* found under job_id with the status completed and the result; or the except
\* branch, which writes the status failed and leaves the key "result" alone
JobFinish(t) ==
    /\ t.pc = "running"
    /\ \E raised \in BOOLEAN :
          api' = [api EXCEPT
                     !.discovery_results[t.job_id] =
                         IF raised THEN [@ EXCEPT !.status = "failed"]
                         ELSE [@ EXCEPT !.status = "completed", !.result = JobResult(t.sub)],
                     !.tasks = @ \ {t}]
    /\ UNCHANGED apiRest

\* device.pop("config", None) on a device dict
PopConfig(device) == [device EXCEPT !.config = NoConfig]

\* GET /discover/{job_id}/devices: the filter builds a new dict of the same
\* device dicts, and the configuration is popped from those dicts themselves
GetDiscoveryDevices(job_id, status, include_config) ==
    /\ job_id \in DOMAIN api.discovery_results
    /\ LET rec == api.discovery_results[job_id] IN
       IF rec.result = NoResult \/ rec.status = "pending"
       THEN api' = [api EXCEPT !.response = [kind |-> "pending", job_id |-> job_id,
                                            include_config |-> include_config, devices |-> EmptyFn]]
       ELSE LET stored == rec.result.devices
                selected == IF status = "" THEN DOMAIN stored
                            ELSE {ip \in DOMAIN stored : stored[ip].discovery_status = status}
                after == [ip \in DOMAIN stored |->
                             IF ip \in selected /\ ~include_config THEN PopConfig(stored[ip])
                             ELSE stored[ip]]
            IN api' = [api EXCEPT
                          !.discovery_results[job_id].result.devices = after,
                          !.response = [kind |-> "devices", job_id |-> job_id,
                                        include_config |-> include_config,
                                        devices |-> [ip \in selected |-> after[ip]]]]
    /\ UNCHANGED apiRest

ApiNext ==
    \/ Discover
    \/ \E t \in api.tasks : JobRun(t)
    \/ \E t \in api.tasks : JobFinish(t)
    \/ \E id \in DOMAIN api.discovery_results, st \in StatusFilters, ic \in BOOLEAN :
           GetDiscoveryDevices(id, st, ic)

ApiSpec == ApiInit /\ [][ApiNext]_vars

\* ---------------------------------------------------------------------------
\* Properties of the neighbor walk and of the topology builder
\* ---------------------------------------------------------------------------
WalkEnded == result.status = "completed"

Discovered(ip) == ip \in DOMAIN devices /\ devices[ip].discovery_status = "discovered"

\* nothing went wrong during the walk: no injected failure, no deadline, no
\* malformed exclusion pattern
Undisturbed == faults = 0 /\ ~deadline_fired /\ ~config.bad_pattern

\* the canonical identity of a Device: the first Device (in result order)
\* discovered under the same valid hostname, else the Device itself
IdentityOf(ip) ==
    IF Discovered(ip) /\ ValidHostname(devices[ip].hostname)
    THEN LET same == {i \in 1..Len(dev_order) :
                        /\ Discovered(dev_order[i])
                        /\ devices[dev_order[i]].hostname = devices[ip].hostname}
         IN dev_order[CHOOSE i \in same : \A j \in same : i <= j]
    ELSE ip

Claims(ip) == {devices[ip].neighbors[i] : i \in 1..Len(devices[ip].neighbors)}

Edges == {connections[i] : i \in 1..Len(connections)}

\* C1: process_device is started at most once per ip, under every
\* interleaving of workers: no ip has two starts, no two workers are busy on
\* the same ip, and an entry dropped as visited belongs to a visited ip.
C1_ProcessedAtMostOnce ==
    /\ \A ip \in DOMAIN proc_count : proc_count[ip] <= 1
    /\ \A w1, w2 \in Workers : (w1 # w2 /\ Busy(w1) /\ Busy(w2)) => cur[w1].ip # cur[w2].ip
    /\ \A d \in dropped : d.rule = "visited" => d.ip \in visited_ips

\* a second queue entry of an ip was dropped and the ip was processed once
C1_Witness ==
    \E d \in dropped : d.rule = "visited" /\ d.ip \in DOMAIN proc_count /\ proc_count[d.ip] = 1

\* C2: when the walk has ended, no two discovered Devices carry the same
\* valid hostname (distinct physical devices reporting distinct hostnames).
DistinctDevicesDistinctNames ==
    \A a, b \in DOMAIN net : net[a].hostname = net[b].hostname => net[a] = net[b]

C2_UniqueHostnames ==
    (WalkEnded /\ Undisturbed /\ DistinctDevicesDistinctNames) =>
        \A a, b \in DOMAIN devices :
            (a # b /\ Discovered(a) /\ Discovered(b) /\ ValidHostname(devices[a].hostname))
                => devices[a].hostname # devices[b].hostname

\* C3: every entry ever put on the queue has depth <= max_depth, every Device
\* was reached by such an entry, and the chain R1-R2-R3-R4 walked from R1 with
\* max_depth 2 ends with Devices for exactly R1, R2 and R3.
ChainRun ==
    /\ net = NetChain /\ config.max_depth = 2 /\ config.exclude = {}
    /\ config.seed_devices = <<Seed(IpA)>>
    /\ Undisturbed /\ WalkEnded

C3_DepthBound ==
    /\ \A i \in 1..Len(enqueued) : enqueued[i].depth <= config.max_depth
    /\ \A ip \in DOMAIN devices :
          \E i \in 1..Len(enqueued) : enqueued[i].ip = ip /\ enqueued[i].depth <= config.max_depth
    /\ ChainRun => /\ DOMAIN devices = {IpA, IpB, IpC}
                   /\ \A ip \in DOMAIN devices : Discovered(ip)

\* the chain was walked: R3 was processed at depth 2 and its claim of R4 was
\* recorded but never put on the queue
C3_Witness ==
    /\ ChainRun
    /\ [ip |-> IpC, port |-> 22, depth |-> 2] \in {enqueued[i] : i \in 1..Len(enqueued)}
    /\ \E n \in Claims(IpC) : n.ip_address = IpD
    /\ IpD \notin DOMAIN devices

\* C4: a device discovered under primary ip p that also owns interface ip q,
\* and claimed by a second discovered device under q, ends as exactly one
\* Device whose all_ip_addresses holds p and q, and the claiming device's
\* adjacency list holds that Device exactly once.
OwnsIp(p, q) ==
    \E i \in 1..Len(devices[p].interfaces) : devices[p].interfaces[i].ip_address = q

Occurrences(seq, x) == Cardinality({i \in 1..Len(seq) : seq[i] = x})

C4_AliasFolded ==
    (WalkEnded /\ Undisturbed /\ DistinctDevicesDistinctNames) =>
        \A p, c \in DOMAIN devices : \A q \in DOMAIN net :
            (/\ p # c /\ q # p /\ Discovered(p) /\ Discovered(c)
             /\ OwnsIp(p, q)
             /\ \E n \in Claims(c) : n.ip_address = q)
            => /\ q \notin DOMAIN devices
               /\ InSeq(p, devices[p].all_ip_addresses) /\ InSeq(q, devices[p].all_ip_addresses)
               /\ IdentityOf(c) \in DOMAIN topology
               /\ Occurrences(topology[IdentityOf(c)], IdentityOf(p)) = 1

\* C5: the edge list never holds an edge together with its reverse, and two
\* discovered devices that claim each other by primary ip over one link with
\* the ports swapped get exactly one edge for that link.
MutualClaims(a, b) ==
    {n \in Claims(a) : /\ n.ip_address = b
                       /\ \E m \in Claims(b) : /\ m.ip_address = a
                                               /\ m.local_interface = n.remote_interface
                                               /\ m.remote_interface = n.local_interface}

C5_NoReverseEdge ==
    WalkEnded =>
        /\ \A i, j \in 1..Len(connections) :
              i # j => ~(/\ connections[i].source = connections[j].target
                         /\ connections[i].target = connections[j].source
                         /\ connections[i].source_port = connections[j].target_port
                         /\ connections[i].target_port = connections[j].source_port)
        /\ \A a, b \in DOMAIN devices :
              (a # b /\ Discovered(a) /\ Discovered(b)) =>
                 \A n \in MutualClaims(a, b) :
                    Cardinality({i \in 1..Len(connections) :
                        \/ connections[i] = Connection(IdentityOf(a), IdentityOf(b), n.local_interface, n.remote_interface)
                        \/ connections[i] = Connection(IdentityOf(b), IdentityOf(a), n.remote_interface, n.local_interface)}) = 1

\* both ends of a link were discovered, claimed each other, and one edge stands
C5_Witness ==
    /\ WalkEnded
    /\ \E a, b \in DOMAIN devices :
          a # b /\ Discovered(a) /\ Discovered(b) /\ MutualClaims(a, b) # {} /\ MutualClaims(b, a) # {}
    /\ Len(connections) = 1

\* C6: both ends of every emitted edge are keys of the result's device map.
C6_EdgeEndpointsExist ==
    (WalkEnded /\ Undisturbed) => \A e \in Edges : e.source \in DOMAIN devices /\ e.target \in DOMAIN devices

\* C7: no emitted edge is a self-loop.
C7_NoSelfLoop ==
    (WalkEnded /\ Undisturbed) => \A e \in Edges : e.source # e.target

\* C8: for every emitted edge (a, b, ia, ib) whose Device a has an interface
\* named ia, that interface's connected_to is "<name claimed for b>:<ib>".
C8_InterfaceCrossLink ==
    (WalkEnded /\ Undisturbed) =>
        \A e \in Edges :
            e.source \in DOMAIN devices =>
                \A i \in 1..Len(devices[e.source].interfaces) :
                    devices[e.source].interfaces[i].name = e.source_port =>
                        /\ devices[e.source].interfaces[i].connected_to # NotConnected
                        /\ devices[e.source].interfaces[i].connected_to[2] = e.target_port

\* C9: a failure of process_device for one ip (exception, no credential
\* accepted, device timeout) is recorded on that ip's Device as failed with a
\* discovery_error, and the walk goes on to empty the queue.
C9_FailureRecorded ==
    (WalkEnded /\ ~deadline_fired) =>
        /\ queue = <<>>
        /\ \A f \in failures :
              /\ f.ip \in DOMAIN devices
              /\ devices[f.ip].discovery_status = "failed"
              /\ devices[f.ip].discovery_error # NoneStr

\* C11: when the walk has ended, every ip whose processing was cut off by the
\* per-device timeout or by the overall deadline has a Device with
\* discovery_status failed and the error "Processing timed out".
C11_TimeoutMarksFailed ==
    WalkEnded =>
        \A f \in failures :
            f.kind \in {"timeout", "deadline"} =>
                /\ f.ip \in DOMAIN devices
                /\ devices[f.ip].discovery_status = "failed"
                /\ devices[f.ip].discovery_error = "Processing timed out"

\* C12: credentials are tried in list order (a worker's credential index moves
\* from k to k + 1 only while credential k has not yielded facts); once a
\* credential has yielded facts the Device is discovered with that credential's
\* username in credentials_used and the index never moves again for that device.
GotFacts(w) == pc[w] \in {"config", "neighbors"}

C12_FirstWorkingCredential ==
    /\ [](\A w \in Workers :
             GotFacts(w) => /\ Discovered(cur[w].ip)
                            /\ devices[cur[w].ip].credentials_used.username = CurCred(w).username
                            /\ CurCred(w).username \in net[cur[w].ip].accepts)
    /\ [][\A w \in Workers \cap DOMAIN pc' :
             cred_idx'[w] # cred_idx[w] =>
                 /\ ~GotFacts(w)
                 /\ IF pc[w] = "start" THEN cred_idx'[w] = 1
                    ELSE pc[w] \in {"detect", "info"} /\ cred_idx'[w] = cred_idx[w] + 1]_vars

\* with [rejected, accepted, ...] a worker has ended a device at the second
\* credential: the Device is discovered and names the accepted credential
C12_Witness ==
    /\ Len(config.credentials) = 3 /\ Undisturbed
    /\ \E w \in Workers :
          /\ pc[w] \in {"head", "done"} /\ cred_idx[w] = 2
          /\ Discovered(cur[w].ip)
          /\ devices[cur[w].ip].credentials_used.username = "admin"
          /\ devices[cur[w].ip].neighbors # <<>>

\* the "config" entry of the registry record: config.dict(exclude={"credentials"})
RegistryConfig == [k \in DOMAIN config \ {"credentials"} |-> config[k]]

\* the passwords and enable secrets of the submitted credentials
Secrets ==
    UNION {{config.credentials[i].password, config.credentials[i].enable_secret} :
              i \in 1..Len(config.credentials)} \ {MissingKey}

\* the pieces of text held by the fields of a Device
TextsOf(d) ==
    {d.credentials_used.username, d.credentials_used.auth_type, d.discovery_error}
        \cup {d.config[i] : i \in 1..Len(d.config)}
        \cup {d.hostname[i] : i \in 1..Len(d.hostname)}

\* C13: no Device of the result holds the password or the enable secret of a
\* submitted credential in any field, credentials_used has exactly the keys
\* username, auth_type and port, and the registry record has no credentials.
C13_NoSecretInResult ==
    /\ "credentials" \notin DOMAIN RegistryConfig
    /\ \A ip \in DOMAIN devices :
          /\ DOMAIN devices[ip].credentials_used = {"username", "auth_type", "port"}
          /\ TextsOf(devices[ip]) \cap Secrets = {}

\* the records of the reachability result, when the result has one
ScanRecords == IF "results" \in DOMAIN result.stats THEN result.stats.results ELSE <<>>

ScanSummary == result.stats.summary

HasScan == "results" \in DOMAIN result.stats

\* C14: an address matching an exclusion pattern has no record in the
\* reachability result, no Device, and no queue entry other than as a seed.
C14_ExcludedSkipped ==
    \A ip \in config.exclude :
        /\ ip \notin DOMAIN devices
        /\ \A i \in 1..Len(ScanRecords) : ScanRecords[i].ip # ip
        /\ \A i \in 1..Len(enqueued) : enqueued[i].ip = ip => enqueued[i].depth = 0

\* the host addresses covered by the subnets the scan was given
CoveredHosts == Targets(IF mode = "subnet" THEN SeedSubnets ELSE subnets)

\* C15: a reachability result obtained without probe failure holds exactly one
\* record per distinct host address covered by the scanned subnets.
C15_OneRecordPerHost ==
    (HasScan /\ faults = 0) =>
        /\ {ScanRecords[i].ip : i \in 1..Len(ScanRecords)} = CoveredHosts
        /\ \A i, j \in 1..Len(ScanRecords) : ScanRecords[i].ip = ScanRecords[j].ip => i = j

\* C16: the summary of a reachability result counts its records: total_scanned
\* is their number, icmp_reachable the number of those that answered the echo,
\* port_P_open the number of those with P among their open ports.
C16_SummaryCountsRecords ==
    HasScan =>
        /\ ScanSummary.total_scanned = Len(ScanRecords)
        /\ ScanSummary.icmp_reachable =
               Cardinality({i \in DOMAIN ScanRecords : ScanRecords[i].icmp_reachable})
        /\ ScanSummary.port_22_open =
               Cardinality({i \in DOMAIN ScanRecords : \E k \in DOMAIN ScanRecords[i].open_ports : ScanRecords[i].open_ports[k] = 22})
        /\ ScanSummary.port_443_open =
               Cardinality({i \in DOMAIN ScanRecords : \E k \in DOMAIN ScanRecords[i].open_ports : ScanRecords[i].open_ports[k] = 443})

\* C17: whatever goes wrong while one host is probed, the reachability result
\* still holds a record for every host covered by the scanned subnets.
C17_ProbeFailureIsPerHost ==
    HasScan => CoveredHosts \subseteq {ScanRecords[i].ip : i \in 1..Len(ScanRecords)}

\* a seed string with a port that is no number or lies outside 1..65535, or
\* with a prefix outside 0..32
MalformedSeed(seed) ==
    \/ seed.port = NonNumericPort
    \/ seed.port # NoPort /\ ~PortInRange(seed.port)
    \/ seed.prefix # NoPrefix /\ seed.prefix \notin 0..32

\* C18: a job whose seed list holds a malformed seed ends as failed, and no
\* host is probed and no device is contacted for it.
C18_MalformedSeedFailsJob ==
    (\E i \in 1..Len(config.seed_devices) : MalformedSeed(config.seed_devices[i])) =>
        /\ phase = "finished" => job_status = "failed"
        /\ ScanRecords = <<>>
        /\ proc_count = EmptyFn
        /\ devices = EmptyFn /\ pre_devices = <<>>

\* the neighbor walk was started on the seeds of the job: they were put on the
\* queue first and the workers were created
WalkRanOnSeeds ==
    /\ pc # EmptyFn
    /\ Len(enqueued) >= Len(SeedEntries)
    /\ SubSeq(enqueued, 1, Len(SeedEntries)) = SeedEntries

\* C19: a seed-device job whose introspection yielded no subnets has run the
\* neighbor walk on its seeds by the time the orchestrator returns.
C19_FallbackWalk ==
    (/\ mode = "seed-device" /\ phase \in {"export", "finished"}
     /\ subnets = {} /\ ~SeedParseRaises) => WalkRanOnSeeds

\* the addresses a Device record holds: its primary ip and all_ip_addresses
IpsOf(ip) == {ip} \cup {devices[ip].all_ip_addresses[i] : i \in 1..Len(devices[ip].all_ip_addresses)}

\* C20: no step of the walk removes an address from the visited set, and when
\* the walk has ended no address belongs to two different Device records.
C20_VisitedGrowsNoSharedIp ==
    /\ [][visited_ips \subseteq visited_ips']_vars
    /\ [](WalkEnded => \A a, b \in DOMAIN devices : a # b => IpsOf(a) \cap IpsOf(b) = {})

\* C21: over the whole walk no address is put on the work queue twice.
C21_EnqueuedOnce ==
    \A i, j \in 1..Len(enqueued) : enqueued[i].ip = enqueued[j].ip => i = j

\* C22: every Device of the result lists its own primary address in
\* all_ip_addresses, whatever its status and hostname.
C22_PrimaryIpListed ==
    WalkEnded => \A ip \in DOMAIN devices : InSeq(ip, devices[ip].all_ip_addresses)

\* C23: the adjacency map of the result is bidirectional: whenever b is
\* listed under a, a is listed under b.
C23_AdjacencyBidirectional ==
    WalkEnded =>
        \A a \in DOMAIN topology :
            \A i \in 1..Len(topology[a]) :
                LET b == topology[a][i]
                IN b \in DOMAIN topology /\ InSeq(a, topology[b])

\* nothing listens at the address: _check_port_open is False at every attempt
PortNeverOpens(ip) == ip \notin DOMAIN net

\* C24: a Device whose transport port never opened during any credential
\* attempt is committed as unreachable; failed is used only for a device whose
\* port opened.
C24_ClosedPortIsUnreachable ==
    \A ip \in DOMAIN devices :
        ([ip |-> ip, kind |-> "credentials"] \in failures /\ PortNeverOpens(ip)) =>
            devices[ip].discovery_status = "unreachable"

\* run_discovery_job has written the final registry entry
JobEnded == phase = "finished"

\* C25: when a job has ended, the counters of its result count the Devices of
\* its device map: all of them, the discovered ones, the failed or unreachable
\* ones.
C25_CountersMatchDevices ==
    JobEnded =>
        /\ result.total_devices_found = Cardinality(DOMAIN devices)
        /\ result.successful_connections =
               Cardinality({ip \in DOMAIN devices : devices[ip].discovery_status = "discovered"})
        /\ result.failed_connections =
               Cardinality({ip \in DOMAIN devices : devices[ip].discovery_status \in {"failed", "unreachable"}})

\* C26: every Device of a finished job has a status out of pending, running,
\* discovered, failed, unreachable.
C26_StatusDomain ==
    JobEnded =>
        \A ip \in DOMAIN devices :
            devices[ip].discovery_status \in {"pending", "running", "discovered", "failed", "unreachable"}

\* the lines of the connected-route tables of the seed devices
SeedRouteLines ==
    UNION {{net[ip].routes[i] : i \in 1..Len(net[ip].routes)} :
              ip \in DOMAIN net \cap {config.seed_devices[k].ip : k \in 1..Len(config.seed_devices)}}

\* C27: for a connected-route line without prefix, the subnets harvested from
\* the seeds hold the /32 of the named address and no broader subnet of it.
C27_NoPrefixRouteIsHost32 ==
    \A r \in SeedRouteLines :
        r.prefix = NoPrefix =>
            \A sn \in subnets : sn.network = r.network => sn.prefix = 32

\* C28: no probe that has returned leaves the connection it opened behind.
C28_ProbeClosesConnection == scan.leaked = {}

\* C29: at every moment of a scan the number of TCP probes in flight is at
\* most the configured probe concurrency.
C29_ProbesWithinConcurrency == Cardinality(InFlight) <= scan.limit

\* C30: a worker leaves its loop only when the queue is empty and no other
\* worker is processing a device; the deadline's cancellation is not an exit
\* of the loop.
C30_WorkerExitsOnlyWhenIdle ==
    [][\A w \in Workers :
          (pc[w] = "head" /\ pc'[w] = "done" /\ ~deadline_fired')
              => (queue' = <<>> /\ \A v \in Workers \ {w} : ~Busy(v))]_vars

\* C31: when the walk ends and the overall deadline has not fired, the queue
\* is empty: every entry ever enqueued was dequeued and then processed or
\* dropped.
C31_QueueEmptyAtEnd ==
    (WalkEnded /\ ~deadline_fired) =>
        /\ queue = <<>>
        /\ \A i \in 1..Len(enqueued) :
              \/ enqueued[i].ip \in DOMAIN proc_count
              \/ \E d \in dropped : d.ip = enqueued[i].ip

C31_Witness ==
    /\ WalkEnded
    /\ ~deadline_fired
    /\ dropped # {}
    /\ \E i \in 1..Len(enqueued) : enqueued[i].depth >= 1 /\ enqueued[i].ip \in DOMAIN proc_count

\* the depth tag of the first queue entry ever created for ip
FirstDepth(ip) ==
    enqueued[CHOOSE i \in 1..Len(enqueued) :
                 enqueued[i].ip = ip /\ \A j \in 1..(i - 1) : enqueued[j].ip # ip].depth

\* C32: no ip is processed at a depth greater than the depth of the first
\* queue entry created for it, also when it is enqueued again at another depth.
C32_ProcessedAtFirstDepth ==
    \A w \in Workers : Busy(w) => cur[w].depth <= FirstDepth(cur[w].ip)

C32_Witness ==
    \E w \in Workers :
        /\ Busy(w)
        /\ \E i \in 1..Len(enqueued) :
              enqueued[i].ip = cur[w].ip /\ enqueued[i].depth > cur[w].depth

TouchedDevices == {a \in DOMAIN devices' : a \notin DOMAIN devices \/ devices'[a] # devices[a]}

\* C34: while the walk runs, a step creates or changes only the Device record
\* keyed by the ip that the stepping worker dequeued; every other record is
\* left unchanged.
C34_OnlyOwnDeviceTouched ==
    [][(result.status = "running" /\ result'.status = "running") =>
          \A a \in TouchedDevices :
              \E w \in Workers : /\ Busy(w)
                                 /\ cur[w].ip = a
                                 /\ (pc'[w] # pc[w] \/ cred_idx'[w] # cred_idx[w])]_vars

C34_Witness ==
    /\ result.status = "running"
    /\ \E v, w \in Workers : v # w /\ Busy(v) /\ Busy(w)
    /\ \E a \in DOMAIN devices : devices[a].discovery_status = "discovered"

\* the walk entries created for the seeds
WalkSeedEntries == {enqueued[i] : i \in {j \in 1..Len(enqueued) : enqueued[j].depth = 0}}

\* C35: in seed-device mode the walk contacts every seed of the request on the
\* port submitted for it, also when the reachability scan found its address.
C35_SeedWalkedOnSubmittedPort ==
    mode = "seed-device" =>
        \A e \in WalkSeedEntries : \A k \in 1..Len(config.request_seed_devices) :
            LET s == ParseSeedDevice(config.request_seed_devices[k])
            IN (~s.raises /\ s.ip = e.ip) => e.port = s.port

\* C36: a Device whose status is discovered carries no discovery_error, also
\* when an earlier credential of the list failed with an error on it.
C36_DiscoveredHasNoError ==
    \A ip \in DOMAIN devices :
        devices[ip].discovery_status = "discovered" => devices[ip].discovery_error = NoneStr

\* C37: the registry never reports completed for a job whose result has the
\* status failed; such a job is recorded as failed.
C37_FailedResultFailsJob ==
    (JobEnded /\ result.status = "failed") => job_status = "failed"

\* the registry records that have reached completed or failed
FinishedRecords ==
    {id \in DOMAIN api.discovery_results : api.discovery_results[id].status \in {"completed", "failed"}}

\* C38: a registry record that has reached completed or failed keeps its
\* status and its result whatever is submitted later, and every record holds
\* only the outcome of the submission that created it.
C38_FinishedRecordIsFinal ==
    /\ [](\A id \in DOMAIN api.discovery_results :
             LET rec == api.discovery_results[id]
             IN rec.result # NoResult => rec.result.by = rec.by)
    /\ [][\A id \in FinishedRecords :
             /\ api'.discovery_results[id].status = api.discovery_results[id].status
             /\ api'.discovery_results[id].by = api.discovery_results[id].by
             /\ api'.discovery_results[id].result.by = api.discovery_results[id].result.by]_vars

\* C39: a device read with include_config true returns the configuration of
\* every device that has one, whatever reads with include_config false came
\* first.
C39_ReadKeepsConfig ==
    (api.response.kind = "devices" /\ api.response.include_config) =>
        \A ip \in DOMAIN api.response.devices :
            api.response.devices[ip].config = ResultDevices[ip].config

\* C10: every started job ends with registry status completed or failed, in
\* each mode, whatever the devices answer and whichever failures occur.
C10_JobTerminates == <>(phase = "finished" /\ job_status \in {"completed", "failed"})

\* a seed-device job ended after a walk in which a device ran into its timeout
C10_Witness ==
    /\ phase = "finished" /\ job_status = "completed" /\ mode = "seed-device"
    /\ result.status = "completed"
    /\ \E f \in failures : f.kind = "timeout"

====
